---- MODULE Spec2Model ----
(***************************************************************************)
(* Model of the three canary scripts of micro-rdk:                         *)
(*   canary/canary_ota.py     the OTA config update (connect, mutate the   *)
(*                            OTA service entry, write, re-fetch, verify)  *)
(*   canary/canary_test.py    the hardware probe (connect loop, 20 pin     *)
(*                            iterations, one outcome record)              *)
(*   canary/daily_summary.py  the daily aggregator (scan the day's raw     *)
(*                            results, insert a summary, alert)            *)
(* Each script is a sequential program; pc is its position.  The remote    *)
(* device, the cloud configuration store, the document store and Slack are *)
(* the environment: what they return or raise is chosen with \E.           *)
(***************************************************************************)
EXTENDS Integers, Sequences, FiniteSets, TLC

VARIABLES
    prog,                \* which script runs: "ota", "probe" or "summary"
    pc,                  \* position in the script; "done" when the run ended
    raised,              \* the exception that ended the run (NoError if none)
    \* ---- connect loops (canary_ota.connect, canary_test.main 48-61)
    i,                   \* the loop variable of `for i in range(5)`
    dials,               \* dial attempts made so far
    fails,               \* dial attempts that raised
    sleeps,              \* time.sleep(0.5) calls made so far
    session,             \* "none", "open" or "closed"
    \* ---- canary_ota.main
    stored,              \* the robot part's configuration held by the cloud
    robot_config,        \* robot_part.robot_config as last fetched
    updated_config,      \* the copy that is mutated and written
    service_updated,
    writes,              \* calls of update_robot_part that returned
    slack,               \* messages handed to chat_postMessage, in order
    \* ---- canary_test.main
    default_item,        \* the outcome record being filled in
    connection_attempts,
    iter,                \* iterations of `for _ in range(20)` completed
    board_api_successes,
    board_api_failures,
    latencies_ms,        \* the measured set-latencies
    raw_inserts,         \* documents inserted into raw_results by this run
    read_high,           \* iterations whose read-back returned high (bookkeeping)
    \* ---- daily_summary.main
    platform_idx,        \* index into Platforms of the platform being handled
    acc,                 \* the counters of get_summary_for_platform's loop
    result,              \* what get_summary_for_platform returned
    summaries,           \* documents inserted into daily_summaries, in order
    exc,                 \* main's `exc` variable
    \* ---- get_summary_for_platform run twice on one day's records
    window1,             \* the records as the first cursor returns them
    window2,             \* the same records as the second cursor returns them
    run1,                \* what the first run returned
    run2                 \* what the second run returned

vars == <<prog, pc, raised, i, dials, fails, sleeps, session,
          stored, robot_config, updated_config, service_updated, writes, slack,
          default_item, connection_attempts, iter, board_api_successes,
          board_api_failures, latencies_ms, raw_inserts, read_high,
          platform_idx, acc, result, summaries, exc,
          window1, window2, run1, run2>>

connectVars == <<i, dials, fails, sleeps, session>>
otaVars == <<stored, robot_config, updated_config, service_updated, writes>>
probeVars == <<default_item, connection_attempts, iter, board_api_successes,
               board_api_failures, latencies_ms, raw_inserts, read_high>>
summaryVars == <<platform_idx, acc, result, summaries, exc>>
orderVars == <<window1, window2, run1, run2>>

(***************************************************************************)
(* Exceptions.  Python raises plain Exception objects; kind names which    *)
(* raise statement (or which collaborator) produced the object, id tells   *)
(* the dial errors of one run apart (the error of attempt 3 has id 3), and *)
(* cause is the kind of the exception it was raised `from`.                *)
(***************************************************************************)
Err(kind, id, cause) == [kind |-> kind, id |-> id, cause |-> cause]
NoError == Err("none", 0, "none")

\* ---------------------------------------------------------------------
\* Bounds
MaxServices == 2         \* services in a robot configuration

\* ---------------------------------------------------------------------
\* canary_ota.connect / canary_test.main: `for i in range(5)`
MaxAttempts == 5

\* `if i == 4`: the attempt whose failure is re-raised
IsLastAttempt(n) == n = 4

\* The attempt that follows a successful dial: none (return / break).
ConnectedPc_retry(next) == "sleep"
ConnectedPc(next) == next

\* The exception object re-raised by `raise e` at the last attempt: the one
\* just caught, i.e. the error of attempt n + 1.
DialError_stale(n) == Err("DialError", 1, "none")
DialError(n) == Err("DialError", n + 1, "none")

\* ---------------------------------------------------------------------
\* canary_ota.main: the robot configuration and the OTA entry

OtaModel == "ota_service"
Url == "new_url"         \* f"{bucket_url}/{bucket_name}/{tag_name}/{bin_name}"
TagName == "new_tag"     \* tag_name

\* A service entry: its model and the two attributes the script touches.
OtaServices == [model : {OtaModel}, url : {"old_url", Url}, version : {"old_tag", TagName}]
OtherServices == {[model |-> "other", url |-> "n/a", version |-> "n/a"]}
Services == OtaServices \cup OtherServices

\* robot_config["services"], a list of at most MaxServices entries
Configs == UNION {[1..n -> Services] : n \in 0..MaxServices}

OtaIndexes(cfg) == {j \in DOMAIN cfg : cfg[j].model = OtaModel}

Min(S) == CHOOSE x \in S : \A y \in S : x <= y

\* The entry the mutating loop stops at: the first one whose model is the OTA
\* service (`break` after the first match).
FirstOta(cfg) == Min(OtaIndexes(cfg))

\* Lines 47-56: the configuration after the mutating loop, and service_updated.
Mutated(cfg) ==
    IF OtaIndexes(cfg) = {} THEN cfg
    ELSE [cfg EXCEPT ![FirstOta(cfg)].url = Url, ![FirstOta(cfg)].version = TagName]

ServiceUpdated(cfg) == OtaIndexes(cfg) # {}

\* Lines 72-78: the verifying loop has no break; it raises at the first OTA
\* entry whose url or version is not the written one.
Mismatch(cfg) ==
    \E j \in OtaIndexes(cfg) : cfg[j].url # Url \/ cfg[j].version # TagName

\* What Slack does with one chat.postMessage call: accept it, raise from
\* chat_postMessage itself, or return a response that validate() rejects.
SinkOutcomes == {"ok", "post_raises", "invalid"}

\* canary_ota.post_to_slack, lines 83-96: the exception it raises (NoError
\* when it returns).  chat_postMessage is outside the try; validate() and
\* the `raise Exception(msg)` of an error message are inside it, and the
\* handler catches Exception, so both leave as "failure to post to Slack".
PostToSlack(sink, msgKind, is_error) ==
    IF sink = "post_raises" THEN Err("SlackApiError", 0, "none")
    ELSE IF sink = "invalid" THEN Err("NotificationError", 0, "SlackApiError")
    ELSE IF is_error THEN Err("NotificationError", 0, msgKind)
    ELSE NoError

\* The messages Slack has been handed: chat_postMessage was called with it.
Posted(msgKind, is_error, sink) == [msg |-> msgKind, is_error |-> is_error, sink |-> sink]

\* ---------------------------------------------------------------------
\* canary_ota.connect, lines 15-25

\* Lines 17-24: one dial attempt.  It returns the client, or raises; the
\* error of the last attempt is re-raised, an earlier one is printed.
OtaDial ==
    /\ prog = "ota" /\ pc = "dial"
    /\ dials' = dials + 1
    /\ \E ok \in BOOLEAN :
        IF ok
        THEN /\ session' = "open"
             /\ pc' = ConnectedPc("fetch")
             /\ UNCHANGED <<fails, raised>>
        ELSE /\ fails' = fails + 1
             /\ session' = session
             /\ IF IsLastAttempt(i)
                THEN raised' = DialError(i) /\ pc' = "done"
                ELSE raised' = raised /\ pc' = "sleep"
    /\ UNCHANGED <<prog, i, sleeps, slack>>
    /\ UNCHANGED <<otaVars, probeVars, summaryVars, orderVars>>

\* Line 25, and the step of `for i in range(5)`.  A loop that ran out would
\* make connect return None.
OtaSleep ==
    /\ prog = "ota" /\ pc = "sleep"
    /\ sleeps' = sleeps + 1
    /\ i' = i + 1
    /\ IF i + 1 < MaxAttempts
       THEN pc' = "dial" /\ raised' = raised
       ELSE pc' = "done" /\ raised' = Err("NoSession", 0, "none")
    /\ UNCHANGED <<prog, dials, fails, session, slack>>
    /\ UNCHANGED <<otaVars, probeVars, summaryVars, orderVars>>

\* ---------------------------------------------------------------------
\* canary_ota.main, lines 41-81

\* Line 45: cloud.get_robot_part returns the stored configuration, or raises.
GetRobotPart ==
    /\ prog = "ota" /\ pc = "fetch"
    /\ \E ok \in BOOLEAN :
        IF ok
        THEN robot_config' = stored /\ pc' = "locate" /\ raised' = raised
        ELSE robot_config' = robot_config /\ pc' = "done"
             /\ raised' = Err("FetchError", 0, "none")
    /\ UNCHANGED <<prog, slack, stored, updated_config, service_updated, writes>>
    /\ UNCHANGED <<connectVars, probeVars, summaryVars, orderVars>>

\* Lines 47-62: copy the configuration, set url and version of the first OTA
\* entry.  copy.copy is shallow, so the fetched configuration shares the
\* mutated entries.  Without an OTA entry: close the client, post the error
\* message, raise.
LocateService ==
    /\ prog = "ota" /\ pc = "locate"
    /\ updated_config' = Mutated(robot_config)
    /\ robot_config' = Mutated(robot_config)
    /\ service_updated' = ServiceUpdated(robot_config)
    /\ IF ServiceUpdated(robot_config)
       THEN /\ pc' = "write"
            /\ UNCHANGED <<session, slack, raised>>
       ELSE /\ session' = "closed"
            /\ \E sink \in SinkOutcomes :
                /\ slack' = Append(slack, Posted("ConfigUpdateError", TRUE, sink))
                /\ raised' = IF PostToSlack(sink, "ConfigUpdateError", TRUE) # NoError
                             THEN PostToSlack(sink, "ConfigUpdateError", TRUE)
                             ELSE Err("ConfigUpdateError", 0, "none")
            /\ pc' = "done"
    /\ UNCHANGED <<prog, i, dials, fails, sleeps, stored, writes>>
    /\ UNCHANGED <<probeVars, summaryVars, orderVars>>

\* Lines 64-68: cloud.update_robot_part raises, or returns.  The store is
\* not assumed to persist what it was given (a silent write failure, an
\* eventually-consistent store, another writer): what it holds afterwards is
\* any configuration, the written one included.
UpdateRobotPart ==
    /\ prog = "ota" /\ pc = "write"
    /\ \E ok \in BOOLEAN :
        IF ok
        THEN /\ writes' = writes + 1
             /\ \E cfg \in Configs : stored' = cfg
             /\ pc' = "refetch" /\ raised' = raised
        ELSE /\ UNCHANGED <<writes, stored>>
             /\ pc' = "done" /\ raised' = Err("WriteError", 0, "none")
    /\ UNCHANGED <<prog, slack, robot_config, updated_config, service_updated>>
    /\ UNCHANGED <<connectVars, probeVars, summaryVars, orderVars>>

\* Line 71: the configuration is fetched again.
RefetchRobotPart ==
    /\ prog = "ota" /\ pc = "refetch"
    /\ \E ok \in BOOLEAN :
        IF ok
        THEN robot_config' = stored /\ pc' = "verify" /\ raised' = raised
        ELSE robot_config' = robot_config /\ pc' = "done"
             /\ raised' = Err("FetchError", 0, "none")
    /\ UNCHANGED <<prog, slack, stored, updated_config, service_updated, writes>>
    /\ UNCHANGED <<connectVars, probeVars, summaryVars, orderVars>>

\* Lines 72-81: a mismatching OTA entry posts the error message and raises,
\* with the client still open; otherwise the client is closed and the
\* success message is posted.
VerifyUpdate ==
    /\ prog = "ota" /\ pc = "verify"
    /\ \E sink \in SinkOutcomes :
        IF Mismatch(robot_config)
        THEN /\ slack' = Append(slack, Posted("VerificationError", TRUE, sink))
             /\ raised' = IF PostToSlack(sink, "VerificationError", TRUE) # NoError
                          THEN PostToSlack(sink, "VerificationError", TRUE)
                          ELSE Err("VerificationError", 0, "none")
             /\ session' = session
        ELSE /\ session' = "closed"
             /\ slack' = Append(slack, Posted("Success", FALSE, sink))
             /\ raised' = PostToSlack(sink, "Success", FALSE)
    /\ pc' = "done"
    /\ UNCHANGED <<prog, i, dials, fails, sleeps>>
    /\ UNCHANGED <<otaVars, probeVars, summaryVars, orderVars>>

\* ---------------------------------------------------------------------
\* Arithmetic shared by the probe and the aggregator.  Python divides into a
\* float and rounds it half-to-even; the model divides exactly and keeps
\* the rounded value as an integer count of units (thousandths for
\* round(x, 3)).  The two differ only at exact ties of the decimal digit,
\* where the float nearest the quotient decides.

\* round(a / b) for b > 0: the nearest integer, a tie going to the even one
RoundHalfEven(a, b) ==
    LET q == a \div b
        r == a % b
    IN  IF 2 * r < b THEN q
        ELSE IF 2 * r > b THEN q + 1
        ELSE IF q % 2 = 0 THEN q ELSE q + 1

\* round(a / b, 3), in thousandths
Round3(a, b) == RoundHalfEven(1000 * a, b)

RECURSIVE SumSeq(_)
SumSeq(sq) == IF sq = <<>> THEN 0 ELSE Head(sq) + SumSeq(Tail(sq))

\* ---------------------------------------------------------------------
\* canary_test.main

Iterations == 20         \* `for _ in range(20)`

\* (time.time() - start) * 1000 for the successful dial and for one set()
ConnectLatencies == {30, 45}
SetLatencies == {4}

\* Lines 30-40: the outcome record as first built
DefaultItem ==
    [_id |-> "timestamp",
     connection_success |-> FALSE,
     connection_error |-> "",
     connection_latency_ms |-> 0,
     board_api_successes |-> 0,
     board_api_failures |-> 0,
     connection_attempts |-> 5,
     board_api_avg_latency_ms |-> 0,
     board_api_latency_ms_std_dev |-> 0]

\* round(np.std(latencies), 3) in thousandths: the population standard
\* deviation, sqrt(n * sum(x^2) - sum(x)^2) / n.
SumSquares(sq) == SumSeq([k \in DOMAIN sq |-> sq[k] * sq[k]])
StdDev3(sq) ==
    LET n == Len(sq)
        v == n * SumSquares(sq) - SumSeq(sq) * SumSeq(sq)
    IN  IF v = 0 THEN 0
        ELSE CHOOSE r \in 0..(1000 * v) :
                /\ (2 * r - 1) * (2 * r - 1) * n * n <= 4000000 * v
                /\ 4000000 * v < (2 * r + 1) * (2 * r + 1) * n * n

\* Lines 49-61: one dial attempt of the probe.  The last failure stores the
\* error text, inserts the record as it stands and re-raises.
ProbeDial ==
    /\ prog = "probe" /\ pc = "dial"
    /\ dials' = dials + 1
    /\ \E ok \in BOOLEAN :
        IF ok
        THEN /\ session' = "open"
             /\ connection_attempts' = i + 1
             /\ pc' = ConnectedPc("pin")
             /\ UNCHANGED <<fails, raised, default_item, raw_inserts>>
        ELSE /\ fails' = fails + 1
             /\ UNCHANGED <<session, connection_attempts>>
             /\ IF IsLastAttempt(i)
                THEN /\ default_item' =
                          [default_item EXCEPT !.connection_error = DialError(i).kind]
                     /\ raw_inserts' = Append(raw_inserts, default_item')
                     /\ raised' = DialError(i)
                     /\ pc' = "done"
                ELSE /\ UNCHANGED <<default_item, raw_inserts, raised>>
                     /\ pc' = "sleep"
    /\ UNCHANGED <<prog, i, sleeps, slack, iter, board_api_successes,
                   board_api_failures, latencies_ms, read_high>>
    /\ UNCHANGED <<otaVars, summaryVars, orderVars>>

\* Line 61, and the step of `for i in range(5)`.  A loop that ran out would
\* reach line 63 with connection_attempts unbound.
ProbeSleep ==
    /\ prog = "probe" /\ pc = "sleep"
    /\ sleeps' = sleeps + 1
    /\ i' = i + 1
    /\ IF i + 1 < MaxAttempts
       THEN pc' = "dial" /\ raised' = raised
       ELSE pc' = "done" /\ raised' = Err("NoSession", 0, "none")
    /\ UNCHANGED <<prog, dials, fails, session, slack>>
    /\ UNCHANGED <<otaVars, probeVars, summaryVars, orderVars>>

\* Lines 63-72: the connection fields of the record, then the pin handle.
\* gpio_pin_by_name is a remote call and may raise.
GetBoardPin ==
    /\ prog = "probe" /\ pc = "pin"
    /\ \E lat \in ConnectLatencies :
        default_item' = [default_item EXCEPT !.connection_success = TRUE,
                                             !.connection_latency_ms = lat,
                                             !.connection_attempts = connection_attempts]
    /\ board_api_successes' = 0
    /\ board_api_failures' = 0
    /\ latencies_ms' = <<>>
    /\ \E ok \in BOOLEAN :
        IF ok
        THEN pc' = "loop" /\ raised' = raised
        ELSE pc' = "done" /\ raised' = Err("RemoteError", 0, "none")
    /\ UNCHANGED <<prog, slack, connection_attempts, iter, raw_inserts, read_high>>
    /\ UNCHANGED <<connectVars, otaVars, summaryVars, orderVars>>

\* What one iteration of the loop meets: every call returns and the pin
\* reads high, or get() raises, or set() raises, or the read-back raises, or
\* the read-back is low.
IterationOutcomes == {"ok", "get_raises", "set_raises", "readback_raises", "low"}

\* The latency of set() is appended once set() has returned.
SetReturned(outcome) == outcome \in {"ok", "readback_raises", "low"}

\* Lines 80-83: the iteration is a success when nothing raised, the low
\* read-back raising ValueError.
CountsAsSuccess_anyReadback(outcome) == outcome \in {"ok", "low"}
CountsAsSuccess(outcome) == outcome = "ok"

\* Lines 74-87: one iteration.  Any exception counts a failure and stores
\* its text; the loop goes on.
ProbeIteration ==
    /\ prog = "probe" /\ pc = "loop"
    /\ iter < Iterations
    /\ \E outcome \in IterationOutcomes, lat \in SetLatencies :
        /\ latencies_ms' = IF SetReturned(outcome)
                           THEN Append(latencies_ms, lat) ELSE latencies_ms
        /\ read_high' = IF outcome = "ok" THEN read_high + 1 ELSE read_high
        /\ IF CountsAsSuccess(outcome)
           THEN /\ board_api_successes' = board_api_successes + 1
                /\ UNCHANGED <<board_api_failures, default_item>>
           ELSE /\ board_api_failures' = board_api_failures + 1
                /\ board_api_successes' = board_api_successes
                /\ default_item' = [default_item EXCEPT !.connection_error = outcome]
    /\ iter' = iter + 1
    /\ UNCHANGED <<prog, pc, raised, slack, connection_attempts, raw_inserts>>
    /\ UNCHANGED <<connectVars, otaVars, summaryVars, orderVars>>

\* Lines 89-97: the latency statistics, the counters, the insert, the close.
\* With no latency measured the mean divides by zero and the run ends there.
ProbeFinish ==
    /\ prog = "probe" /\ pc = "loop"
    /\ iter = Iterations
    /\ IF Len(latencies_ms) = 0
       THEN /\ raised' = Err("ZeroDivisionError", 0, "none")
            /\ UNCHANGED <<default_item, raw_inserts, session>>
       ELSE /\ default_item' =
                 [default_item EXCEPT
                    !.board_api_avg_latency_ms =
                        Round3(SumSeq(latencies_ms), Len(latencies_ms)),
                    !.board_api_latency_ms_std_dev = StdDev3(latencies_ms),
                    !.board_api_successes = board_api_successes,
                    !.board_api_failures = board_api_failures]
            /\ raw_inserts' = Append(raw_inserts, default_item')
            /\ session' = "closed"
            /\ raised' = raised
    /\ pc' = "done"
    /\ UNCHANGED <<prog, i, dials, fails, sleeps, slack, connection_attempts, iter,
                   board_api_successes, board_api_failures, latencies_ms, read_high>>
    /\ UNCHANGED <<otaVars, summaryVars, orderVars>>

\* ---------------------------------------------------------------------
\* daily_summary

MaxRecords == 5          \* raw results of one platform in the day's window

\* FAILURE_ACCEPTABILITY = 0.2, in thousandths like the rates
FAILURE_ACCEPTABILITY == 200

GO == "Go"
PYTHON == "Python"
Platforms == <<GO, PYTHON>>

\* The documents the window query can return: a run that never connected,
\* and connected runs with their board API counts.
FailedRecord ==
    [connection_success |-> FALSE, connection_latency_ms |-> 0,
     connection_attempts |-> 5, board_api_successes |-> 0,
     board_api_failures |-> 0, sdk_version |-> "v1"]
ConnectedRecord(lat, att, ok, ko) ==
    [connection_success |-> TRUE, connection_latency_ms |-> lat,
     connection_attempts |-> att, board_api_successes |-> ok,
     board_api_failures |-> ko, sdk_version |-> "v1"]
RawRecords ==
    {FailedRecord, ConnectedRecord(30, 1, 20, 0), ConnectedRecord(45, 2, 16, 4),
     ConnectedRecord(45, 3, 5, 15)}

\* Line 42: the window query selects a document by its "timestamp" field
\* (within the day) and its "sdk_type" field (the platform).  A run's
\* time, written "timestamp", lies in the day of the run.
Selected(doc, platform) ==
    /\ "timestamp" \in DOMAIN doc /\ doc.timestamp = "timestamp"
    /\ "sdk_type" \in DOMAIN doc /\ doc.sdk_type = platform

\* Lines 52-59: the fields the loop reads of a selected document
FieldsRead ==
    {"sdk_version", "connection_success", "connection_latency_ms",
     "connection_attempts", "board_api_successes", "board_api_failures"}

\* Lines 43-50
ZeroAcc ==
    [latency_sum |-> 0, successes |-> 0, connection_failures |-> 0,
     board_api_successes |-> 0, board_api_failures |-> 0,
     connection_attempts |-> 0, num_results |-> 0, sdk_version |-> ""]

\* The loop body with `=` for `+=` on connection_attempts
Accumulate_overwrite(a, record) ==
    IF record.connection_success
    THEN [a EXCEPT !.sdk_version = record.sdk_version,
                   !.num_results = @ + 1,
                   !.latency_sum = @ + record.connection_latency_ms,
                   !.connection_attempts = record.connection_attempts,
                   !.successes = @ + 1,
                   !.board_api_successes = @ + record.board_api_successes,
                   !.board_api_failures = @ + record.board_api_failures]
    ELSE [a EXCEPT !.sdk_version = record.sdk_version,
                   !.num_results = @ + 1,
                   !.connection_failures = @ + 1]

\* Lines 52-61: the loop body for one record
Accumulate(a, record) ==
    IF record.connection_success
    THEN [a EXCEPT !.sdk_version = record.sdk_version,
                   !.num_results = @ + 1,
                   !.latency_sum = @ + record.connection_latency_ms,
                   !.connection_attempts = @ + record.connection_attempts,
                   !.successes = @ + 1,
                   !.board_api_successes = @ + record.board_api_successes,
                   !.board_api_failures = @ + record.board_api_failures]
    ELSE [a EXCEPT !.sdk_version = record.sdk_version,
                   !.num_results = @ + 1,
                   !.connection_failures = @ + 1]

\* A float quotient a / b, kept exact as a fraction in lowest terms
RECURSIVE GCD(_, _)
GCD(a, b) == IF b = 0 THEN a ELSE GCD(b, a % b)
Quotient(a, b) ==
    IF a = 0 THEN [num |-> 0, den |-> 1]
    ELSE [num |-> a \div GCD(a, b), den |-> b \div GCD(a, b)]
Zero == [num |-> 0, den |-> 1]

NoSummary ==
    [date |-> "", successes |-> 0, robot_connection_failures |-> 0,
     board_api_failures |-> 0, avg_connection_latency_ms |-> Zero,
     avg_connection_attempts |-> Zero, sdk_version |-> ""]
NoResult ==
    [error |-> NoError, summary |-> NoSummary, failure_rate |-> 0,
     board_failure_rate |-> 0, sdk_version |-> ""]
Failed(kind) == [NoResult EXCEPT !.error = Err(kind, 0, "none")]

\* Line 69
TotalBoardCalls(a) == a.board_api_successes + a.board_api_failures

\* Lines 66-81: the averages, the summary document and the two rates.  Each
\* division raises ZeroDivisionError on a zero divisor; only the latency
\* average tests its divisor first.  failure_rate is round(x, 3);
\* board_failure_rate is round(x), a whole number, held here in thousandths.
Rates(a) ==
    IF a.num_results = 0 \/ TotalBoardCalls(a) = 0
    THEN Failed("ZeroDivisionError")
    ELSE [error |-> NoError,
          summary |->
            [date |-> "start_of_day",
             successes |-> a.successes,
             robot_connection_failures |-> a.connection_failures,
             board_api_failures |-> a.board_api_failures,
             avg_connection_latency_ms |->
                IF a.successes # 0 THEN Quotient(a.latency_sum, a.successes) ELSE Zero,
             avg_connection_attempts |-> Quotient(a.connection_attempts, a.num_results),
             sdk_version |-> a.sdk_version],
          failure_rate |-> Round3(a.connection_failures, a.num_results),
          board_failure_rate |->
             1000 * RoundHalfEven(a.board_api_failures, TotalBoardCalls(a)),
          sdk_version |-> a.sdk_version]

\* Lines 63-81: an empty window raises before anything is divided.
Summarize_unguarded(a) == Rates(a)
Summarize(a) ==
    IF a.num_results = 0 THEN Failed("NoDataError") ELSE Rates(a)

\* Lines 89 and 98: `rate > FAILURE_ACCEPTABILITY`
Exceeds_orEqual(rate) == rate >= FAILURE_ACCEPTABILITY
Exceeds(rate) == rate > FAILURE_ACCEPTABILITY

\* Lines 91-96 and 100-105: what leaves post_to_slack_on_failure once a
\* rate exceeds the threshold.  chat_postMessage is outside the try; the
\* handler catches only SlackApiError, so the `raise Exception(msg)` that
\* follows an accepted post leaves as it is.
AlertError(sink, which) ==
    IF sink = "post_raises" THEN Err("SlackApiError", 0, "none")
    ELSE IF sink = "invalid" THEN Err("NotificationError", 0, "SlackApiError")
    ELSE Err("ThresholdBreachError", 0, which)

Alert(which, value, platform, sink) ==
    [msg |-> which, value |-> value, platform |-> platform, sink |-> sink]

\* Lines 25 and 38-50: the next platform's window is queried and the
\* counters start from zero.
StartPlatform ==
    /\ prog = "summary" /\ pc = "start"
    /\ acc' = ZeroAcc
    /\ pc' = "scan"
    /\ UNCHANGED <<prog, raised, slack, platform_idx, result, summaries, exc>>
    /\ UNCHANGED <<connectVars, otaVars, probeVars, orderVars>>

\* Lines 51-61: the cursor yields one more record of the window.
ScanRecord ==
    /\ prog = "summary" /\ pc = "scan"
    /\ acc.num_results < MaxRecords
    /\ \E record \in RawRecords : acc' = Accumulate(acc, record)
    /\ UNCHANGED <<prog, pc, raised, slack, platform_idx, result, summaries, exc>>
    /\ UNCHANGED <<connectVars, otaVars, probeVars, orderVars>>

\* Lines 63-81 and line 26: the cursor is exhausted.  An exception of
\* get_summary_for_platform is outside main's try and ends the run.
GetSummaryForPlatform ==
    /\ prog = "summary" /\ pc = "scan"
    /\ result' = Summarize(acc)
    /\ IF Summarize(acc).error = NoError
       THEN pc' = "insert" /\ raised' = raised
       ELSE pc' = "done" /\ raised' = Summarize(acc).error
    /\ UNCHANGED <<prog, slack, platform_idx, acc, summaries, exc>>
    /\ UNCHANGED <<connectVars, otaVars, probeVars, orderVars>>

\* Lines 27-28.  The document carries no platform; `platform` beside it
\* records for which platform it was inserted.
InsertSummary ==
    /\ prog = "summary" /\ pc = "insert"
    /\ summaries' = Append(summaries,
                           [platform |-> Platforms[platform_idx], doc |-> result.summary])
    /\ pc' = "alert"
    /\ UNCHANGED <<prog, raised, slack, platform_idx, acc, result, exc>>
    /\ UNCHANGED <<connectVars, otaVars, probeVars, orderVars>>

\* The same without main's try: the exception of an alert ends the run.
PostToSlackOnFailure_uncaught ==
    /\ prog = "summary" /\ pc = "alert"
    /\ \E sink \in SinkOutcomes :
        IF Exceeds(result.failure_rate)
        THEN /\ slack' = Append(slack, Alert("connection", result.failure_rate,
                                             Platforms[platform_idx], sink))
             /\ raised' = AlertError(sink, "connection")
             /\ pc' = "done" /\ platform_idx' = platform_idx
        ELSE IF Exceeds(result.board_failure_rate)
        THEN /\ slack' = Append(slack, Alert("board", result.board_failure_rate,
                                             Platforms[platform_idx], sink))
             /\ raised' = AlertError(sink, "board")
             /\ pc' = "done" /\ platform_idx' = platform_idx
        ELSE /\ UNCHANGED <<slack, raised>>
             /\ IF platform_idx < Len(Platforms)
                THEN platform_idx' = platform_idx + 1 /\ pc' = "start"
                ELSE platform_idx' = platform_idx /\ pc' = "end"
    /\ UNCHANGED <<prog, exc, acc, result, summaries>>
    /\ UNCHANGED <<connectVars, otaVars, probeVars, orderVars>>

\* Lines 29-33 and 83-105: the connection rate is tested first and, when it
\* exceeds the threshold, the function is left by an exception after the
\* post; the board rate is tested only if it returned.  main keeps the
\* exception in exc and goes on to the next platform.
PostToSlackOnFailure ==
    /\ prog = "summary" /\ pc = "alert"
    /\ \E sink \in SinkOutcomes :
        IF Exceeds(result.failure_rate)
        THEN /\ slack' = Append(slack, Alert("connection", result.failure_rate,
                                             Platforms[platform_idx], sink))
             /\ exc' = AlertError(sink, "connection")
        ELSE IF Exceeds(result.board_failure_rate)
        THEN /\ slack' = Append(slack, Alert("board", result.board_failure_rate,
                                             Platforms[platform_idx], sink))
             /\ exc' = AlertError(sink, "board")
        ELSE UNCHANGED <<slack, exc>>
    /\ IF platform_idx < Len(Platforms)
       THEN platform_idx' = platform_idx + 1 /\ pc' = "start"
       ELSE platform_idx' = platform_idx /\ pc' = "end"
    /\ UNCHANGED <<prog, raised, acc, result, summaries>>
    /\ UNCHANGED <<connectVars, otaVars, probeVars, orderVars>>

\* Lines 34-35: `if exc is not None: raise exc`
RaiseKept ==
    /\ prog = "summary" /\ pc = "end"
    /\ raised' = exc
    /\ pc' = "done"
    /\ UNCHANGED <<prog, slack>>
    /\ UNCHANGED <<connectVars, otaVars, probeVars, summaryVars, orderVars>>

\* ---------------------------------------------------------------------
\* get_summary_for_platform as a function of the records its cursor returns

MaxWindow == 3           \* records in the window of the two compared runs

\* The day's records, written by clients of either SDK version
VersionedRecords ==
    RawRecords \cup {[r EXCEPT !.sdk_version = "v2"] : r \in RawRecords}

Windows == UNION {[1..n -> VersionedRecords] : n \in 0..MaxWindow}

\* The same records in another order
Reorderings(w) ==
    {[k \in DOMAIN w |-> w[f[k]]] : f \in Permutations(DOMAIN w)}

\* Lines 51-61: the loop over the whole cursor
RECURSIVE ScanWindow(_, _)
ScanWindow(a, w) ==
    IF w = <<>> THEN a ELSE ScanWindow(Accumulate(a, Head(w)), Tail(w))

\* Lines 43-81
GetSummary(w) == Summarize(ScanWindow(ZeroAcc, w))

FirstRun ==
    /\ prog = "order" /\ pc = "first"
    /\ run1' = GetSummary(window1)
    /\ pc' = "second"
    /\ UNCHANGED <<prog, raised, slack, window1, window2, run2>>
    /\ UNCHANGED <<connectVars, otaVars, probeVars, summaryVars>>

SecondRun ==
    /\ prog = "order" /\ pc = "second"
    /\ run2' = GetSummary(window2)
    /\ pc' = "done"
    /\ UNCHANGED <<prog, raised, slack, window1, window2, run1>>
    /\ UNCHANGED <<connectVars, otaVars, probeVars, summaryVars>>

\* ---------------------------------------------------------------------
\* Specifications

InitCommon ==
    /\ raised = NoError
    /\ i = 0 /\ dials = 0 /\ fails = 0 /\ sleeps = 0 /\ session = "none"
    /\ robot_config = <<>> /\ updated_config = <<>>
    /\ service_updated = FALSE /\ writes = 0
    /\ slack = <<>>
    /\ default_item = DefaultItem
    /\ connection_attempts = 0 /\ iter = 0
    /\ board_api_successes = 0 /\ board_api_failures = 0
    /\ latencies_ms = <<>> /\ raw_inserts = <<>> /\ read_high = 0
    /\ run1 = NoResult /\ run2 = NoResult
    /\ platform_idx = 1 /\ acc = ZeroAcc /\ result = NoResult
    /\ summaries = <<>> /\ exc = NoError

\* One run of canary_ota.py against any stored configuration, or one run of
\* canary_test.py.
Init ==
    /\ prog \in {"ota", "probe"}
    /\ pc = "dial"
    /\ window1 = <<>> /\ window2 = <<>>
    /\ stored \in Configs
    /\ prog = "probe" => stored = <<>>
    /\ InitCommon

Next ==
    \/ OtaDial
    \/ OtaSleep
    \/ GetRobotPart
    \/ LocateService
    \/ UpdateRobotPart
    \/ RefetchRobotPart
    \/ VerifyUpdate
    \/ ProbeDial
    \/ ProbeSleep
    \/ GetBoardPin
    \/ ProbeIteration
    \/ ProbeFinish

Spec == Init /\ [][Next]_vars

\* One run of daily_summary.py.
InitSummary ==
    /\ prog = "summary"
    /\ pc = "start"
    /\ stored = <<>>
    /\ window1 = <<>> /\ window2 = <<>>
    /\ InitCommon

NextSummary ==
    \/ StartPlatform
    \/ ScanRecord
    \/ GetSummaryForPlatform
    \/ InsertSummary
    \/ PostToSlackOnFailure
    \/ RaiseKept

SpecSummary == InitSummary /\ [][NextSummary]_vars

\* ---------------------------------------------------------------------
\* Properties of the connect loops (Spec)

\* C1: once a session is obtained, the dial failed fails < 5 times before
\* it, exactly fails + 1 dial attempts and exactly fails sleeps were made,
\* and this stays so for the rest of the run (no dial or sleep follows the
\* successful attempt).
C1_RetryThenSuccess ==
    session # "none" =>
        /\ fails < MaxAttempts
        /\ dials = fails + 1
        /\ sleeps = fails

\* A session obtained after four failed attempts.
C1_Witness == session = "open" /\ fails = 4 /\ pc \in {"fetch", "pin"}

\* C2: there is never a 6th dial attempt, and a run in which every dial
\* attempt failed made exactly 5 attempts and ended with the error of the
\* 5th attempt.
C2_AllDialsFail ==
    /\ dials <= MaxAttempts
    /\ (pc = "done" /\ fails = dials) =>
          /\ dials = MaxAttempts
          /\ sleeps = MaxAttempts - 1
          /\ raised = Err("DialError", MaxAttempts, "none")

\* A run ended by the dial error of the last attempt.
C2_Witness == pc = "done" /\ fails = dials /\ raised.kind = "DialError"

\* ---------------------------------------------------------------------
\* Properties of the OTA config update (Spec)

\* The run ended in the branch of a configuration without an OTA entry.
MissingOtaRun ==
    /\ prog = "ota" /\ pc = "done"
    /\ slack # <<>> /\ slack[1].msg = "ConfigUpdateError"

\* C3: a run whose fetched configuration has no OTA entry ends with
\* ConfigUpdateError and has written nothing.
C3_MissingEntryFails ==
    MissingOtaRun =>
        /\ raised.kind = "ConfigUpdateError"
        /\ writes = 0
        /\ stored = robot_config

\* The run ended in the verification of a re-fetched configuration with an
\* OTA entry that differs from what was written.
MismatchRun ==
    /\ prog = "ota" /\ pc = "done"
    /\ writes = 1 /\ slack # <<>>
    /\ Mismatch(robot_config)

\* C4: a run whose re-fetched configuration has a differing OTA entry ends
\* with VerificationError and never posts the success message.
C4_MismatchFails ==
    MismatchRun =>
        /\ raised.kind = "VerificationError"
        /\ \A k \in DOMAIN slack : slack[k].msg # "Success"

\* C5: no run of the OTA update that obtained a session ends with the
\* session still open.
C5_SessionReleased ==
    (prog = "ota" /\ pc = "done" /\ session # "none") => session = "closed"

\* ---------------------------------------------------------------------
\* Properties of the aggregator (SpecSummary)

\* The platform whose alerting has just been done, and that it has: main is
\* about to start the next platform, or is past the loop.
AlertingDone ==
    /\ prog = "summary"
    /\ \/ pc = "start" /\ platform_idx > 1
       \/ pc = "end"
AlertedPlatform ==
    IF pc = "start" THEN Platforms[platform_idx - 1] ELSE Platforms[platform_idx]

AlertPosted(which, platform) ==
    \E k \in DOMAIN slack : slack[k].msg = which /\ slack[k].platform = platform

SummaryInserted(platform) ==
    \E k \in DOMAIN summaries : summaries[k].platform = platform

\* The window of the current platform was scanned to its end and held only
\* runs that never connected.
AllFailedDay ==
    /\ prog = "summary" /\ pc \notin {"start", "scan"}
    /\ acc.num_results > 0
    /\ acc.connection_failures = acc.num_results

\* C6: a day whose records all failed to connect is summarized without
\* error, with average latency 0, API failure rate 0 and connection failure
\* rate 1.0; the summary is inserted and the connection alert is posted.
C6_AllFailedDaySummarized ==
    AllFailedDay =>
        /\ result.error = NoError
        /\ raised.kind # "ZeroDivisionError"
        /\ result.summary.avg_connection_latency_ms = Zero
        /\ result.board_failure_rate = 0
        /\ result.failure_rate = 1000
        /\ pc \in {"alert", "end", "done"} => SummaryInserted(Platforms[platform_idx])
        /\ pc \in {"end", "done"} => AlertPosted("connection", Platforms[platform_idx])

\* C7: when the window of a platform is empty, the run ends there with
\* NoDataError (not with the error of a division), and neither a summary
\* nor an alert exists for that platform.
C7_EmptyWindowFails ==
    (prog = "summary" /\ pc \notin {"start", "scan"} /\ acc.num_results = 0) =>
        /\ pc = "done"
        /\ raised = Err("NoDataError", 0, "none")
        /\ result = Failed("NoDataError")
        /\ ~SummaryInserted(Platforms[platform_idx])
        /\ \A k \in DOMAIN slack : slack[k].platform # Platforms[platform_idx]

\* The second platform's window is empty after the first was summarized.
C7_Witness ==
    /\ prog = "summary" /\ pc = "done" /\ platform_idx = 2
    /\ acc.num_results = 0 /\ raised.kind = "NoDataError"
    /\ Len(summaries) = 1

\* The API failure rate of the counters, rounded to 3 decimal digits
ApiRate3(a) == Round3(a.board_api_failures, TotalBoardCalls(a))

\* C8: when the connection failure rate does not exceed the threshold and
\* the API failure rate rounded to 3 digits does, an API-failure alert
\* carrying that 3-digit rate has been posted for the platform.
C8_ApiAlertCarriesRate ==
    (/\ AlertingDone
     /\ ~Exceeds(Round3(acc.connection_failures, acc.num_results))
     /\ Exceeds(ApiRate3(acc))) =>
        \E k \in DOMAIN slack :
            /\ slack[k].msg = "board"
            /\ slack[k].platform = AlertedPlatform
            /\ slack[k].value = ApiRate3(acc)

\* C9: when both rates of a platform exceed the threshold, both alerts have
\* been posted for it.
C9_BothAlertsPosted ==
    (/\ AlertingDone
     /\ Exceeds(result.failure_rate)
     /\ Exceeds(result.board_failure_rate)) =>
        /\ AlertPosted("connection", AlertedPlatform)
        /\ AlertPosted("board", AlertedPlatform)

\* The counters of the day of the example: 100 results, 15 of them
\* connection failures, 1600 API successes and 400 API failures.
ExampleDay ==
    [ZeroAcc EXCEPT !.num_results = 100, !.connection_failures = 15,
                    !.successes = 85, !.board_api_successes = 1600,
                    !.board_api_failures = 400, !.sdk_version = "v1"]

\* C10: an alert is posted for a rate only if the rate is strictly greater
\* than 0.2: a posted connection alert means connection_failures /
\* num_results > 1/5, a posted API alert means board_api_failures /
\* total_board_calls > 1/5, and a rate of exactly 1/5 posts none.  For the
\* day of the example the connection rate is 0.150, the API rate is exactly
\* 1/5, and neither rate is found to exceed the threshold.
C10_StrictThreshold ==
    /\ AlertingDone =>
          /\ AlertPosted("connection", AlertedPlatform) =>
                5 * acc.connection_failures > acc.num_results
          /\ AlertPosted("board", AlertedPlatform) =>
                5 * acc.board_api_failures > TotalBoardCalls(acc)
    /\ Summarize(ExampleDay).error = NoError
    /\ Summarize(ExampleDay).failure_rate = 150
    /\ 5 * ExampleDay.board_api_failures = TotalBoardCalls(ExampleDay)
    /\ ~Exceeds(Summarize(ExampleDay).failure_rate)
    /\ ~Exceeds(Summarize(ExampleDay).board_failure_rate)

\* Alerting is done for a day with both rates exactly at the threshold (one
\* connection failure in five results, a fifth of the API calls failed),
\* and nothing was posted.
C10_Witness ==
    /\ AlertingDone
    /\ 5 * acc.connection_failures = acc.num_results
    /\ acc.board_api_failures > 0
    /\ 5 * acc.board_api_failures = TotalBoardCalls(acc)
    /\ slack = <<>>


\* The summaries inserted for a platform
SummariesOf(platform) == {k \in DOMAIN summaries : summaries[k].platform = platform}

\* C11: for each platform whose window is non-empty exactly one summary is
\* inserted in the run (never two), and it is inserted before any alert of
\* that platform is posted, whatever the alerting does.
C11_OneSummaryPerWindow ==
    prog = "summary" =>
        /\ \A p \in {GO, PYTHON} : Cardinality(SummariesOf(p)) <= 1
        /\ \A k \in DOMAIN slack : SummaryInserted(slack[k].platform)
        /\ (pc \in {"alert", "end", "done"} /\ acc.num_results > 0) =>
              Cardinality(SummariesOf(Platforms[platform_idx])) = 1

\* Alerting raised for a platform: a rate exceeded the threshold, and the
\* function was left by the threshold exception or by a Slack error.
AlertRaised(platform) == \E k \in DOMAIN slack : slack[k].platform = platform

\* C12: when the alerting of the first platform raised, the run does not
\* end before the second platform has been handled, the second platform's
\* summary is inserted and its rates are tested once its aggregation
\* returned, and the run ends with an error.
C12_AlertFailureDoesNotStop ==
    (prog = "summary" /\ AlertRaised(GO)) =>
        /\ pc = "done" => (platform_idx = Len(Platforms) /\ raised # NoError)
        /\ (pc \in {"end", "done"} /\ result.error = NoError) =>
              /\ SummaryInserted(PYTHON)
              /\ Exceeds(result.failure_rate) => AlertPosted("connection", PYTHON)
              /\ (~Exceeds(result.failure_rate) /\ Exceeds(result.board_failure_rate))
                    => AlertPosted("board", PYTHON)

\* The first platform's alert could not be posted, the second platform was
\* summarized and alerted, and the run has ended.
C12_Witness ==
    /\ prog = "summary" /\ pc = "done"
    /\ Len(slack) = 2
    /\ slack[1].platform = GO /\ slack[1].sink = "post_raises"
    /\ slack[2].platform = PYTHON /\ slack[2].msg = "board"
    /\ SummaryInserted(PYTHON)

\* C13: a failure of one platform's aggregation (an empty window, a failing
\* rate computation) does not end the run before the other platform has
\* been aggregated.
C13_AggregationIndependent ==
    (/\ prog = "summary" /\ pc = "done"
     /\ raised.kind \in {"NoDataError", "ZeroDivisionError"}) =>
        platform_idx = Len(Platforms)


\* ---------------------------------------------------------------------
\* Properties of the probe (Spec)

\* C14: a probe run never inserts two outcome records, and a run that ended
\* after five failed dials or after its 20 iterations, whatever failed in
\* them, has inserted exactly one.
C14_OneRecordPerRun ==
    prog = "probe" =>
        /\ Len(raw_inserts) <= 1
        /\ (pc = "done" /\ (fails = dials \/ iter = Iterations)) =>
              Len(raw_inserts) = 1

\* C15: an inserted record of a connected run counts 20 iterations, none
\* of them a success unless its read-back was high; an inserted record of
\* a run that never connected counts none; connection_attempts is in 1..5
\* and is the number of dial attempts made.
C15_RecordInvariant ==
    prog = "probe" =>
        \A k \in DOMAIN raw_inserts :
            LET r == raw_inserts[k] IN
            /\ r.connection_success =>
                  /\ r.board_api_successes + r.board_api_failures = Iterations
                  /\ r.board_api_successes <= read_high
            /\ ~r.connection_success =>
                  (r.board_api_successes = 0 /\ r.board_api_failures = 0)
            /\ r.connection_attempts \in 1..MaxAttempts
            /\ r.connection_attempts = dials

\* A record of a run that connected at the third attempt and saw a low
\* read-back in its last iteration, among successes.
C15_Witness ==
    /\ prog = "probe" /\ pc = "done" /\ Len(raw_inserts) = 1
    /\ raw_inserts[1].connection_success
    /\ raw_inserts[1].connection_attempts = 3
    /\ raw_inserts[1].connection_error = "low"
    /\ raw_inserts[1].board_api_successes = 12


\* Two runs of get_summary_for_platform over the records of one day and
\* platform, returned by the store in any two orders.
InitOrder ==
    /\ prog = "order"
    /\ pc = "first"
    /\ stored = <<>>
    /\ window1 \in Windows
    /\ window2 \in Reorderings(window1)
    /\ InitCommon

NextOrder ==
    \/ FirstRun
    \/ SecondRun

SpecOrder == InitOrder /\ [][NextOrder]_vars

\* ---------------------------------------------------------------------
\* Properties of the aggregator as a function (SpecOrder)

\* C16 as stated: two runs over the same records return identical values
\* for every field, whatever the order of the records.
C16_SameInAnyOrder ==
    (prog = "order" /\ pc = "done") => run1 = run2

\* A result without the fields that follow the order of the cursor: the
\* version last seen, and the latency average, a sum of floats taken in
\* cursor order.
OrderFree(r) ==
    [r EXCEPT !.sdk_version = "", !.summary.sdk_version = "",
              !.summary.avg_connection_latency_ms = Zero]

LastVersion(w) == w[Len(w)].sdk_version

\* C16 amended: two runs over the same records in any two orders agree on
\* the outcome (error or not), the counts, the average attempts and both
\* rates; sdk_version is the version of the last record the cursor
\* returned, in the result and in the summary.
C16_SameUpToOrderOfCursor ==
    (prog = "order" /\ pc = "done") =>
        /\ OrderFree(run1) = OrderFree(run2)
        /\ run1.error = NoError =>
              /\ run1.sdk_version = LastVersion(window1)
              /\ run1.summary.sdk_version = LastVersion(window1)
              /\ run2.sdk_version = LastVersion(window2)
              /\ run2.summary.sdk_version = LastVersion(window2)

\* Both runs are done over three records of differing attempts returned
\* in two orders that end with different versions.
C16_Witness ==
    /\ prog = "order" /\ pc = "done"
    /\ Len(window1) = 3 /\ window1 # window2
    /\ run1.error = NoError
    /\ run1.sdk_version # run2.sdk_version
    /\ run1.summary.avg_connection_attempts = [num |-> 2, den |-> 1]


\* ---------------------------------------------------------------------
\* Further properties of the OTA config update and of the probe (Spec)

\* The run posted the success message and ended without error.
ReportedSuccess ==
    /\ prog = "ota" /\ pc = "done" /\ raised = NoError
    /\ \E k \in DOMAIN slack : slack[k].msg = "Success"

\* C17: the run reports success only if the re-fetched configuration has an
\* OTA entry whose url and version are the written ones.
C17_SuccessOnlyIfVerified ==
    ReportedSuccess =>
        \E j \in OtaIndexes(robot_config) :
            robot_config[j].url = Url /\ robot_config[j].version = TagName

\* C18: every record the probe inserts is selected by the window query of
\* some platform and has the fields the aggregator reads of it.
C18_RecordsReachAggregator ==
    prog = "probe" =>
        \A k \in DOMAIN raw_inserts :
            /\ \E p \in {GO, PYTHON} : Selected(raw_inserts[k], p)
            /\ FieldsRead \subseteq DOMAIN raw_inserts[k]

\* The run wrote, the store returned exactly what was written, the
\* verification ran and Slack accepted its message.
FaithfulRun ==
    /\ prog = "ota" /\ pc = "done"
    /\ writes = 1 /\ robot_config = updated_config
    /\ slack # <<>> /\ slack[1].sink = "ok"

\* C19: a run against a store that persists the write succeeds, for any
\* number of OTA entries in the configuration.
C19_FaithfulStoreSucceeds ==
    FaithfulRun => (raised = NoError /\ slack[1].msg = "Success")

\* C20: after an error notification that Slack accepted the run ends with
\* the error that was notified (ConfigUpdateError or VerificationError); it
\* ends with a notification failure only if Slack did not accept the post.
C20_NotifiedErrorSurfaces ==
    (prog = "ota" /\ pc = "done" /\ slack # <<>> /\ slack[1].is_error) =>
        /\ slack[1].sink = "ok" => raised.kind = slack[1].msg
        /\ raised.kind = "NotificationError" => slack[1].sink # "ok"

====
